---- MODULE Spec2Model ----
(***************************************************************************)
(* The /numbers aggregator of karthikraobr/ta-go.                          *)
(*                                                                         *)
(* The repository holds three revisions of the same request handler:       *)
(*   "pool"  server.go 171-321 (and its twin 323-487): fetchAll spawns a   *)
(*           fixed pool of doWork goroutines fed by an unbuffered channel, *)
(*           consume drains the result and the error channel;              *)
(*   "sem"   server.go 1-169: validateAndFetch spawns one fetch goroutine  *)
(*           per valid URL behind a counting semaphore;                    *)
(*   "orig"  numbers.go: validateAndFetch spawns one fetch goroutine per   *)
(*           valid URL, there is no error channel.                         *)
(* One request is modelled from its arrival to the handler's return, with  *)
(* every goroutine it starts.                                              *)
(***************************************************************************)
EXTENDS Integers, Sequences, FiniteSets, TLC

\* ------------------------------------------------------------------ bounds

\* Longest SourceList (number of "u" query parameters) of a request.
MaxUrls == 2

\* ------------------------------------------------------ program constants

\* Pool size and channel capacity of the "pool" revision, semaphore size of
\* the "sem" revision. The source sets 200 (500 in the "sem" revision); the
\* model scales it to 2, so that a SourceList of MaxUrls + 1 entries is
\* longer than the pool is wide.
maxConnections == 2

\* The deadline of a request, in milliseconds: the constant of the "sem"
\* revision and the default of the -timeout flag of the "pool" revision.
timeout == 50000

\* The deadline of a request of numbers.go, in milliseconds.
numbersTimeout == 450

\* ResponseHeaderTimeout of the transport of the "pool" revision, in
\* milliseconds.
individualTimeout == 500

\* The longest SourceList of any specification: one entry more than the pool
\* has workers, at least.
MaxLen == IF MaxUrls > maxConnections THEN MaxUrls ELSE maxConnections + 1

\* ------------------------------------------------------------- input sets

\* The strings a "u" parameter can be: the empty string, a string url.Parse
\* and http.NewRequest reject, and a well-formed address.
Urls == {"", "%bad", "a"}

Methods == {"GET", "POST"}

StatusOK == 200

\* What a source can send back as the JSON array "numbers".
Payloads == {<<2, 1, 1>>, <<3, 2>>}

\* A response of a source: a status, whether the body decodes, its numbers.
Responses ==
    [status : {StatusOK}, ok : {TRUE}, Numbers : Payloads]
        \cup [status : {StatusOK}, ok : {FALSE}, Numbers : {<<>>}]
        \cup [status : {503}, ok : {TRUE}, Numbers : Payloads]

NoResp == [status |-> 0, ok |-> FALSE, Numbers |-> <<>>]

RECURSIVE SeqsUpTo(_, _)
SeqsUpTo(S, n) ==
    IF n = 0 THEN {<<>>}
    ELSE LET shorter == SeqsUpTo(S, n - 1)
         IN  shorter \cup {Append(s, x) : s \in {t \in shorter : Len(t) = n - 1}, x \in S}

\* ------------------------------------------------------------------ state

VARIABLES
    variant,      \* which revision handles the request
    method,       \* r.Method
    urls,         \* params := q["u"]
    timeoutPtr,   \* the package variable timeout: "nil" until main assigns it
    hpc,          \* position of the handler
    status,       \* response status (0: nothing written yet)
    body,         \* response body
    released,     \* the deferred cancel() of the handler has run
    ctx,          \* the derived context: "none", "live", or its Err()
    clientGone,   \* the request's own context has been cancelled
    dpc,          \* position of the dispatcher (fetchAll)
    next,         \* index of the next url the dispatcher hands out
    closed,       \* the work queue c has been closed
    workers,      \* the fetching goroutines
    chRes,        \* the result channel
    chErr,        \* the error channel
    cpc,          \* position of the collecting loop
    i,            \* its loop counter
    count,        \* its bound
    accumulator,  \* the output collection
    accNil,       \* accumulator is the nil slice
    visited,      \* the membership set
    cur,          \* the result being filtered
    how,          \* how the collecting loop ended
    reply,        \* history: what each source answered
    outcome,      \* history: the terminal outcome fetch produced per source
    early,        \* history: the sources whose result was sent before ctx was done
    rcv,          \* history: the sources whose outcome was received, in order
    clock,        \* milliseconds since the request arrived
    latency,      \* milliseconds the source sleeps before it answers
    taken,        \* history: the strings the workers received from the queue, in order
    sorts,        \* history: the number of calls of sort.Ints
    open          \* the sources whose response body is open: obtained and not closed

reqVars  == <<variant, method, urls, timeoutPtr>>
hVars    == <<hpc, status, body, released>>
ctxVars  == <<ctx, clientGone>>
dispVars == <<dpc, next, closed>>
chVars   == <<chRes, chErr>>
consVars == <<cpc, i, count, accumulator, accNil, visited, cur, how, rcv>>
histVars == <<reply, outcome, early, taken, sorts, open>>
timeVars == <<clock, latency>>
vars == <<timeVars, reqVars, hVars, ctxVars, dispVars, workers, chVars, consVars, histVars>>

\* ---------------------------------------------------------------- helpers

G == 1 .. MaxLen

Range(s) == {s[k] : k \in 1 .. Len(s)}

min(a, b) == IF a < b THEN a ELSE b

\* ctx.Done() is closed
Done == ctx \in {"DeadlineExceeded", "Canceled"}

NoWorker == [pc |-> "none", src |-> 0, resp |-> NoResp]

NoMsg == [src |-> 0, Numbers |-> <<>>]

NoBody == [kind |-> "none", null |-> FALSE, numbers |-> <<>>]

\* url.Parse(u) / http.NewRequest(GET, u) fail
Malformed(u) == u = "%bad"

\* The empty address parses, but has no scheme and no host: every round trip
\* to it fails.
Unreachable(u) == u = ""

\* sort.Ints: insertion of each element into an ascending sequence.
RECURSIVE InsertSorted(_, _)
InsertSorted(s, x) ==
    IF s = <<>> THEN <<x>>
    ELSE IF x <= Head(s) THEN <<x>> \o s
    ELSE <<Head(s)>> \o InsertSorted(Tail(s), x)

\* A sort that leaves the slice as it is.
SortNothing(s) == s

RECURSIVE SortInts(_)
SortInts(s) ==
    IF s = <<>> THEN <<>> ELSE InsertSorted(SortInts(Tail(s)), Head(s))

\* Filter without the membership test: every value is appended.
RECURSIVE FilterNoCheck(_, _, _)
FilterNoCheck(acc, vis, nums) ==
    IF nums = <<>> THEN <<acc, vis>>
    ELSE FilterNoCheck(Append(acc, Head(nums)), vis \cup {Head(nums)}, Tail(nums))

\* Filter that leaves the loop after the first value.
FilterFirstOnly(acc, vis, nums) ==
    IF nums = <<>> \/ Head(nums) \in vis THEN <<acc, vis>>
    ELSE <<Append(acc, Head(nums)), vis \cup {Head(nums)}>>

\* Filter that appends a new value without entering it in visited.
RECURSIVE FilterForgetsVisited(_, _, _)
FilterForgetsVisited(acc, vis, nums) ==
    IF nums = <<>> THEN <<acc, vis>>
    ELSE IF Head(nums) \in vis THEN FilterForgetsVisited(acc, vis, Tail(nums))
    ELSE FilterForgetsVisited(Append(acc, Head(nums)), vis, Tail(nums))

\* The loop over res.Numbers: a value not yet visited is appended to the
\* accumulator and entered in visited. The pair is <<accumulator, visited>>.
RECURSIVE Filter(_, _, _)
Filter(acc, vis, nums) ==
    IF nums = <<>> THEN <<acc, vis>>
    ELSE IF Head(nums) \in vis THEN Filter(acc, vis, Tail(nums))
    ELSE Filter(Append(acc, Head(nums)), vis \cup {Head(nums)}, Tail(nums))

\* json.NewEncoder(w).Encode(result{Numbers: s}): a nil slice encodes as null.
Encode(isNil, s) == [kind |-> "json", null |-> isNil, numbers |-> s]

\* ------------------------------------------------------------------- Init

\* One invocation of the handler before its first statement.
InitHandler ==
    /\ hpc = "start"
    /\ status = 0
    /\ released = FALSE
    /\ body = NoBody
    /\ ctx = "none"
    /\ clientGone = FALSE
    /\ dpc = "idle"
    /\ next = 1
    /\ closed = FALSE
    /\ workers = [g \in G |-> NoWorker]
    /\ chRes = <<>>
    /\ chErr = <<>>
    /\ cpc = "idle"
    /\ i = 0
    /\ count = 0
    /\ accumulator = <<>>
    /\ accNil = TRUE
    /\ visited = {}
    /\ cur = NoMsg
    /\ how = "none"
    /\ reply = [k \in 1 .. MaxLen |-> NoResp]
    /\ outcome = [k \in 1 .. MaxLen |-> "none"]
    /\ early = {}
    /\ taken = <<>>
    /\ sorts = 0
    /\ open = {}
    /\ rcv = <<>>

\* The program at the arrival of a request, served after main has run:
\* timeout = flag.Duration("timeout", 50000, ...) has been assigned.
InitProgram ==
    /\ timeoutPtr = "set"
    /\ InitHandler

\* Any request; time is left out (the clock stands still and the timer of the
\* deadline may fire at any moment).
InitCommon ==
    /\ method \in Methods
    /\ urls \in SeqsUpTo(Urls, MaxUrls)
    /\ clock = 0
    /\ latency = 0
    /\ InitProgram

Init == variant = "pool" /\ InitCommon

\* ------------------------------------------------------- deadline control

\* The timer of context.WithTimeout fires.
Timeout ==
    /\ ctx = "live"
    /\ ctx' = "DeadlineExceeded"
    /\ UNCHANGED <<timeVars, clientGone, reqVars, hVars, dispVars, workers, chVars, consVars, histVars>>

\* A client drop that cancels r.Context() and leaves the derived context
\* alone.
ClientDropParentOnly ==
    /\ ~clientGone
    /\ ctx \in {"none", "live"}
    /\ hpc # "done"
    /\ clientGone' = TRUE
    /\ UNCHANGED <<timeVars, ctx, reqVars, hVars, dispVars, workers, chVars, consVars, histVars>>

\* The client drops: r.Context() is cancelled and, with it, every context
\* derived from it. (A drop after ctx is done changes nothing the program
\* reads and is left out.)
ClientDrop ==
    /\ ~clientGone
    /\ ctx \in {"none", "live"}
    /\ hpc # "done"
    /\ clientGone' = TRUE
    /\ ctx' = IF ctx = "live" THEN "Canceled" ELSE ctx
    /\ UNCHANGED <<timeVars, reqVars, hVars, dispVars, workers, chVars, consVars, histVars>>

\* defer cancel()
cancel == IF ctx = "live" THEN "Canceled" ELSE ctx

\* context.WithTimeout(r.Context(), ...): a child of a cancelled parent is
\* born cancelled.
WithTimeout == IF clientGone THEN "Canceled" ELSE "live"

\* ---------------------------------------------------------------- handler

\* w.WriteHeader(http.StatusForbidden); w.Write("403 - Method not supported!")
Forbidden ==
    /\ status' = 403
    /\ body' = [kind |-> "text", null |-> FALSE, numbers |-> <<>>]
    /\ hpc' = "done"
    /\ UNCHANGED <<released, ctx, dispVars, workers, cpc, count, accNil>>

\* *timeout with timeout == nil: the goroutine that called the handler
\* panics before a context is derived or anything is written.
NilDereference ==
    /\ hpc' = "panic"
    /\ UNCHANGED <<status, body, released, ctx, dispVars, workers, cpc, count, accNil>>

\* No "u" parameter: the deadline context is made, the empty result is
\* encoded and the handler returns, which runs the deferred cancel.
NoParams(isNil) ==
    /\ status' = StatusOK
    /\ body' = Encode(isNil, <<>>)
    /\ hpc' = "done"
    /\ ctx' = "Canceled"
    /\ released' = TRUE
    /\ UNCHANGED <<dispVars, workers, cpc, count, accNil>>

\* numbersHandler that starts the pool and the collecting loop for an empty
\* SourceList as for any other.
numbersHandlerNoShortCut ==
    /\ variant = "pool"
    /\ hpc = "start"
    /\ IF method # "GET" THEN Forbidden
       ELSE /\ ctx' = WithTimeout
            /\ dpc' = "spawn"
            /\ cpc' = "select"
            /\ count' = Len(urls)
            /\ accNil' = FALSE
            /\ hpc' = "consume"
            /\ UNCHANGED <<status, body, released, next, closed, workers>>
    /\ UNCHANGED <<timeVars, reqVars, clientGone, chVars, i,
                   accumulator, visited, cur, how, rcv, histVars>>

\* numbersHandler without the method check.
numbersHandlerAnyMethod ==
    /\ variant = "pool"
    /\ hpc = "start"
    /\ IF Len(urls) = 0 THEN NoParams(FALSE)
       ELSE /\ ctx' = WithTimeout
            /\ dpc' = "spawn"
            /\ cpc' = "select"
            /\ count' = Len(urls)
            /\ accNil' = FALSE
            /\ hpc' = "consume"
            /\ UNCHANGED <<status, body, released, next, closed, workers>>
    /\ UNCHANGED <<timeVars, reqVars, clientGone, chVars, i,
                   accumulator, visited, cur, how, rcv, histVars>>

\* numbersHandler of the "pool" revision, up to the call of consume: the
\* channels are made, fetchAll is started as a goroutine.
numbersHandler ==
    /\ variant = "pool"
    /\ hpc = "start"
    /\ IF method # "GET" THEN Forbidden
       ELSE IF timeoutPtr = "nil" THEN NilDereference
       ELSE IF Len(urls) = 0 THEN NoParams(FALSE)
       ELSE /\ ctx' = WithTimeout
            /\ dpc' = "spawn"
            /\ cpc' = "select"
            /\ count' = Len(urls)
            /\ accNil' = FALSE
            /\ hpc' = "consume"
            /\ UNCHANGED <<status, body, released, next, closed, workers>>
    /\ UNCHANGED <<timeVars, reqVars, clientGone, chVars, i,
                   accumulator, visited, cur, how, rcv, histVars>>

\* The goroutines validateAndFetch starts: one per url that url.Parse accepts.
Spawned(first) ==
    [g \in G |-> IF g <= Len(urls) /\ ~Malformed(urls[g])
                 THEN [NoWorker EXCEPT !.pc = first, !.src = g]
                 ELSE NoWorker]

\* A counter that counts every url, valid or not.
CounterAll == Len(urls)

\* counter: the number of valid urls
Counter == Cardinality({k \in 1 .. Len(urls) : ~Malformed(urls[k])})

\* numbersHandler of the "sem" revision, up to the collecting loop of
\* validateAndFetch: every valid url gets a fetch goroutine and is counted.
validateAndFetch ==
    /\ variant = "sem"
    /\ hpc = "start"
    /\ IF method # "GET" THEN Forbidden
       ELSE IF Len(urls) = 0 THEN NoParams(FALSE)
       ELSE /\ ctx' = WithTimeout
            /\ workers' = Spawned("acquire")
            /\ cpc' = "select"
            /\ count' = Counter
            /\ accNil' = FALSE
            /\ hpc' = "consume"
            /\ UNCHANGED <<status, body, released, dispVars>>
    /\ UNCHANGED <<timeVars, reqVars, clientGone, chVars, i,
                   accumulator, visited, cur, how, rcv, histVars>>

\* A numberHandler whose loop runs once per valid url only.
numberHandlerCountsValid ==
    /\ variant = "orig"
    /\ hpc = "start"
    /\ IF Len(urls) = 0 THEN NoParams(TRUE)
       ELSE /\ ctx' = WithTimeout
            /\ workers' = Spawned("fetch")
            /\ cpc' = "select"
            /\ count' = Counter
            /\ accNil' = TRUE
            /\ hpc' = "consume"
            /\ UNCHANGED <<status, body, released, dispVars>>
    /\ UNCHANGED <<timeVars, reqVars, clientGone, chVars, i,
                   accumulator, visited, cur, how, rcv, histVars>>

\* numberHandler of the "orig" revision (numbers.go), up to the collecting
\* loop of its validateAndFetch: no method check, the accumulator starts as
\* the nil slice, the loop runs once per url (for range urls).
numberHandler ==
    /\ variant = "orig"
    /\ hpc = "start"
    /\ IF Len(urls) = 0 THEN NoParams(TRUE)
       ELSE /\ ctx' = WithTimeout
            /\ workers' = Spawned("fetch")
            /\ cpc' = "select"
            /\ count' = Len(urls)
            /\ accNil' = TRUE
            /\ hpc' = "consume"
            /\ UNCHANGED <<status, body, released, dispVars>>
    /\ UNCHANGED <<timeVars, reqVars, clientGone, chVars, i,
                   accumulator, visited, cur, how, rcv, histVars>>

\* A handler that returns without calling cancel.
handlerReturnNoCancel ==
    /\ hpc = "consume"
    /\ cpc = "done"
    /\ status' = StatusOK
    /\ body' = Encode(accNil, accumulator)
    /\ hpc' = "done"
    /\ UNCHANGED <<timeVars, released, reqVars, ctxVars, dispVars, workers, chVars, consVars, histVars>>

\* A handler that answers with an error status when a source failed.
handlerReturnSurfacing ==
    /\ hpc = "consume"
    /\ cpc = "done"
    /\ status' = IF \E s \in Range(rcv) : outcome[s] = "err" THEN 502 ELSE StatusOK
    /\ body' = Encode(accNil, accumulator)
    /\ ctx' = cancel
    /\ released' = TRUE
    /\ hpc' = "done"
    /\ UNCHANGED <<timeVars, reqVars, clientGone, dispVars, workers, chVars, consVars, histVars>>

\* consume has returned: the handler encodes its result and returns, which
\* runs the deferred cancel.
handlerReturn ==
    /\ hpc = "consume"
    /\ cpc = "done"
    /\ status' = StatusOK
    /\ body' = Encode(accNil, accumulator)
    /\ ctx' = cancel
    /\ released' = TRUE
    /\ hpc' = "done"
    /\ UNCHANGED <<timeVars, reqVars, clientGone, dispVars, workers, chVars, consVars, histVars>>

\* ------------------------------------------------------------- dispatcher

\* A fetchAll that starts one worker per url.
fetchAllSpawnPerSource ==
    /\ dpc = "spawn"
    /\ workers' = [g \in G |->
                     IF g <= Len(urls) THEN [NoWorker EXCEPT !.pc = "recv"]
                     ELSE workers[g]]
    /\ dpc' = "send"
    /\ UNCHANGED <<timeVars, reqVars, hVars, ctxVars, next, closed, chVars, consVars, histVars>>

\* fetchAll: "Spin up workers".
fetchAllSpawn ==
    /\ dpc = "spawn"
    /\ workers' = [g \in G |->
                     IF g <= maxConnections THEN [NoWorker EXCEPT !.pc = "recv"]
                     ELSE workers[g]]
    /\ dpc' = "send"
    /\ UNCHANGED <<timeVars, reqVars, hVars, ctxVars, next, closed, chVars, consVars, histVars>>

\* The workers are interchangeable: of those waiting in url := <-u, the one
\* with the least number is the one the runtime serves.
Served(g) ==
    /\ workers[g].pc = "recv"
    /\ \A h \in G : workers[h].pc = "recv" => g <= h

\* A dispatcher that ranges over urls from its last entry to its first.
fetchAllBackwards(g) ==
    /\ dpc = "send"
    /\ next <= Len(urls)
    /\ Served(g)
    /\ LET k == Len(urls) + 1 - next IN
         /\ workers' = [workers EXCEPT ![g] =
                          IF urls[k] = ""
                          THEN [@ EXCEPT !.pc = "exit"]
                          ELSE [@ EXCEPT !.pc = "fetch", !.src = k]]
         /\ taken' = Append(taken, urls[k])
    /\ next' = next + 1
    /\ UNCHANGED <<timeVars, reqVars, hVars, ctxVars, dpc, closed, chVars, consVars,
                   reply, outcome, early, sorts, open>>

\* c <- u meets url := <-u of worker g (c is unbuffered). A worker that
\* receives the empty string returns.
doWorkReceive(g) ==
    /\ dpc = "send"
    /\ next <= Len(urls)
    /\ Served(g)
    /\ workers' = [workers EXCEPT ![g] =
                     IF urls[next] = ""
                     THEN [@ EXCEPT !.pc = "exit"]
                     ELSE [@ EXCEPT !.pc = "fetch", !.src = next]]
    /\ taken' = Append(taken, urls[next])
    /\ next' = next + 1
    /\ UNCHANGED <<timeVars, reqVars, hVars, ctxVars, dpc, closed, chVars, consVars,
                   reply, outcome, early, sorts, open>>

\* A dispatcher that may close the queue before it has sent every url.
fetchAllCloseEarly ==
    /\ dpc = "send"
    /\ closed' = TRUE
    /\ dpc' = "done"
    /\ UNCHANGED <<timeVars, reqVars, hVars, ctxVars, next, workers, chVars, consVars, histVars>>

\* close(c)
fetchAllClose ==
    /\ dpc = "send"
    /\ next > Len(urls)
    /\ closed' = TRUE
    /\ dpc' = "done"
    /\ UNCHANGED <<timeVars, reqVars, hVars, ctxVars, next, workers, chVars, consVars, histVars>>

\* url := <-u on the closed queue yields the empty string: the worker returns.
doWorkClosed(g) ==
    /\ Served(g)
    /\ closed
    /\ workers' = [workers EXCEPT ![g].pc = "exit"]
    /\ UNCHANGED <<timeVars, reqVars, hVars, ctxVars, dispVars, chVars, consVars, histVars>>

\* ------------------------------------------------------------------ fetch

\* Channels as wide as the pool whatever the number of sources.
CapOfPool == maxConnections

\* Capacity of the result and of the error channel.
Cap == IF variant = "pool" THEN maxConnections ELSE Len(urls)

\* Where a goroutine goes after fetch returns: a pool worker takes the next
\* url, a per-url goroutine ends.
AfterFetch == IF variant = "pool" THEN "recv" ELSE "exit"

\* A status check that lets every status pass.
StatusNeverFails(s) == FALSE

\* res.StatusCode != http.StatusOK
StatusFails(s) == s # StatusOK

\* http.NewRequest, then t.RoundTrip(req) with the request bound to ctx: the
\* request cannot be built, the round trip fails (always when ctx is done),
\* or the source answers.
fetchRequest(g) ==
    /\ variant \in {"pool", "sem"}
    /\ workers[g].pc = "fetch"
    /\ LET s == workers[g].src IN
       \/ /\ Malformed(urls[s]) \/ Done
          /\ workers' = [workers EXCEPT ![g].pc = "sendErr"]
          /\ UNCHANGED <<reply, open>>
       \/ /\ ~Malformed(urls[s])
          /\ ~Done
          /\ workers' = [workers EXCEPT ![g].pc = "sendErr"]
          /\ UNCHANGED <<reply, open>>
       \/ /\ ~Malformed(urls[s])
          /\ ~Unreachable(urls[s])
          /\ ~Done
          /\ \E r \in Responses :
                /\ workers' = [workers EXCEPT ![g].pc = "decode", ![g].resp = r]
                /\ reply' = [reply EXCEPT ![s] = r]
                /\ open' = open \cup {s}
    /\ UNCHANGED <<timeVars, reqVars, hVars, ctxVars, dispVars, chVars, consVars, outcome, early, taken, sorts>>

\* The status check and json.NewDecoder(res.Body).Decode(&number). Reading
\* the body of a request whose context is done either fails or is served
\* from what was already received.
fetchDecode(g) ==
    /\ variant \in {"pool", "sem"}
    /\ workers[g].pc = "decode"
    /\ LET r == workers[g].resp IN
       \/ /\ StatusFails(r.status) \/ ~r.ok \/ Done
          /\ workers' = [workers EXCEPT ![g].pc = "sendErr"]
       \/ /\ ~StatusFails(r.status)
          /\ r.ok
          /\ workers' = [workers EXCEPT ![g].pc = "sendRes"]
    /\ UNCHANGED <<timeVars, reqVars, hVars, ctxVars, dispVars, chVars, consVars, histVars>>

\* A failure path that cancels the context for everyone.
fetchSendErrCancels(g) ==
    /\ variant \in {"pool", "sem"}
    /\ workers[g].pc = "sendErr"
    /\ Len(chErr) < Cap
    /\ chErr' = Append(chErr, [src |-> workers[g].src, Numbers |-> <<>>])
    /\ outcome' = [outcome EXCEPT ![workers[g].src] = "err"]
    /\ open' = open \ {workers[g].src}
    /\ workers' = [workers EXCEPT ![g] = [NoWorker EXCEPT !.pc = AfterFetch]]
    /\ ctx' = cancel
    /\ UNCHANGED <<timeVars, reqVars, hVars, clientGone, dispVars, chRes, consVars,
                   reply, early, taken, sorts>>

\* A failure path that returns without sending.
fetchReturnSilently(g) ==
    /\ variant \in {"pool", "sem"}
    /\ workers[g].pc = "sendErr"
    /\ workers' = [workers EXCEPT ![g] = [NoWorker EXCEPT !.pc = AfterFetch]]
    /\ UNCHANGED <<timeVars, reqVars, hVars, ctxVars, dispVars, chVars, consVars, histVars>>

\* p.err <- fmt.Errorf(...); return
fetchSendErr(g) ==
    /\ variant \in {"pool", "sem"}
    /\ workers[g].pc = "sendErr"
    /\ Len(chErr) < Cap
    /\ chErr' = Append(chErr, [src |-> workers[g].src, Numbers |-> <<>>])
    /\ outcome' = [outcome EXCEPT ![workers[g].src] = "err"]
    /\ open' = open \ {workers[g].src}
    /\ workers' = [workers EXCEPT ![g] = [NoWorker EXCEPT !.pc = AfterFetch]]
    /\ UNCHANGED <<timeVars, reqVars, hVars, ctxVars, dispVars, chRes, consVars, reply, early, taken, sorts>>

\* A fetch that shares the accumulator: it files its values itself, under no
\* lock, besides sending them.
fetchSendResShared(g) ==
    /\ variant \in {"pool", "sem"}
    /\ workers[g].pc = "sendRes"
    /\ Len(chRes) < Cap
    /\ chRes' = Append(chRes, [src |-> workers[g].src, Numbers |-> workers[g].resp.Numbers])
    /\ LET f == Filter(accumulator, visited, workers[g].resp.Numbers) IN
         /\ accumulator' = f[1]
         /\ visited' = f[2]
    /\ outcome' = [outcome EXCEPT ![workers[g].src] = "res"]
    /\ open' = open \ {workers[g].src}
    /\ early' = IF Done THEN early ELSE early \cup {workers[g].src}
    /\ workers' = [workers EXCEPT ![g] = [NoWorker EXCEPT !.pc = AfterFetch]]
    /\ UNCHANGED <<timeVars, reqVars, hVars, ctxVars, dispVars, chErr, cpc, i, count,
                   accNil, cur, how, rcv, reply, taken, sorts>>

\* p.res <- number
fetchSendRes(g) ==
    /\ variant \in {"pool", "sem"}
    /\ workers[g].pc = "sendRes"
    /\ Len(chRes) < Cap
    /\ chRes' = Append(chRes, [src |-> workers[g].src, Numbers |-> workers[g].resp.Numbers])
    /\ outcome' = [outcome EXCEPT ![workers[g].src] = "res"]
    /\ open' = open \ {workers[g].src}
    /\ early' = IF Done THEN early ELSE early \cup {workers[g].src}
    /\ workers' = [workers EXCEPT ![g] = [NoWorker EXCEPT !.pc = AfterFetch]]
    /\ UNCHANGED <<timeVars, reqVars, hVars, ctxVars, dispVars, chErr, consVars, reply, taken, sorts>>

\* --------------------------------------------------- the "sem" revision

\* sem <- struct{}{}: a place on the semaphore, held until fetch returns.
SemHeld == Cardinality({g \in G : workers[g].pc \in {"fetch", "decode", "sendErr", "sendRes"}})

fetchAcquire(g) ==
    /\ variant = "sem"
    /\ workers[g].pc = "acquire"
    /\ SemHeld < min(maxConnections, Len(urls))
    /\ workers' = [workers EXCEPT ![g].pc = "fetch"]
    /\ UNCHANGED <<timeVars, reqVars, hVars, ctxVars, dispVars, chVars, consVars, histVars>>

\* -------------------------------------------------- the "orig" revision

\* fetch of numbers.go, to the response: a request that cannot be built or a
\* failed round trip is logged and fetch returns without sending.
origFetchRequest(g) ==
    /\ variant = "orig"
    /\ workers[g].pc = "fetch"
    /\ LET s == workers[g].src IN
       \/ /\ Malformed(urls[s]) \/ Done
          /\ workers' = [workers EXCEPT ![g] = [NoWorker EXCEPT !.pc = "exit"]]
          /\ UNCHANGED <<reply, open>>
       \/ /\ ~Malformed(urls[s])
          /\ ~Done
          /\ workers' = [workers EXCEPT ![g] = [NoWorker EXCEPT !.pc = "exit"]]
          /\ UNCHANGED <<reply, open>>
       \/ /\ ~Malformed(urls[s])
          /\ ~Unreachable(urls[s])
          /\ ~Done
          /\ \E r \in Responses :
                /\ workers' = [workers EXCEPT ![g].pc = "decode", ![g].resp = r]
                /\ reply' = [reply EXCEPT ![s] = r]
                /\ open' = open \cup {s}
    /\ UNCHANGED <<timeVars, reqVars, hVars, ctxVars, dispVars, chVars, consVars, outcome, early, taken, sorts>>

\* res.StatusCode > http.StatusOK: fetch logs and returns. Then, with
\* `defer res.Body.Close()` set, the decoding: a failure is logged and fetch
\* returns without sending.
origFetchDecode(g) ==
    /\ variant = "orig"
    /\ workers[g].pc = "decode"
    /\ LET r == workers[g].resp IN
       \/ /\ r.status > StatusOK
          /\ workers' = [workers EXCEPT ![g] = [NoWorker EXCEPT !.pc = "exit"]]
          /\ UNCHANGED open
       \/ /\ ~(r.status > StatusOK)
          /\ ~r.ok \/ Done
          /\ workers' = [workers EXCEPT ![g] = [NoWorker EXCEPT !.pc = "exit"]]
          /\ open' = open \ {workers[g].src}
       \/ /\ ~(r.status > StatusOK)
          /\ r.ok
          /\ workers' = [workers EXCEPT ![g].pc = "sendRes"]
          /\ UNCHANGED open
    /\ UNCHANGED <<timeVars, reqVars, hVars, ctxVars, dispVars, chVars, consVars,
                   reply, outcome, early, taken, sorts>>

\* c <- number
origFetchSend(g) ==
    /\ variant = "orig"
    /\ workers[g].pc = "sendRes"
    /\ Len(chRes) < Cap
    /\ chRes' = Append(chRes, [src |-> workers[g].src, Numbers |-> workers[g].resp.Numbers])
    /\ outcome' = [outcome EXCEPT ![workers[g].src] = "res"]
    /\ open' = open \ {workers[g].src}
    /\ early' = IF Done THEN early ELSE early \cup {workers[g].src}
    /\ workers' = [workers EXCEPT ![g] = [NoWorker EXCEPT !.pc = "exit"]]
    /\ UNCHANGED <<timeVars, reqVars, hVars, ctxVars, dispVars, chErr, consVars, reply, taken, sorts>>

\* ---------------------------------------------------------------- consume

\* case res := <-p.res
consumeRes ==
    /\ cpc = "select"
    /\ i < count
    /\ chRes # <<>>
    /\ cur' = Head(chRes)
    /\ chRes' = Tail(chRes)
    /\ rcv' = Append(rcv, Head(chRes).src)
    /\ cpc' = "filter"
    /\ UNCHANGED <<timeVars, reqVars, hVars, ctxVars, dispVars, workers, chErr, i, count,
                   accumulator, accNil, visited, how, histVars>>

\* A loop that sorts the accumulator after every result.
consumeFilterSorting ==
    /\ cpc = "filter"
    /\ LET f == Filter(accumulator, visited, cur.Numbers) IN
         /\ accumulator' = SortInts(f[1])
         /\ visited' = f[2]
         /\ accNil' = (accNil /\ f[1] = <<>>)
    /\ sorts' = sorts + 1
    /\ cur' = NoMsg
    /\ i' = i + 1
    /\ cpc' = "select"
    /\ UNCHANGED <<timeVars, reqVars, hVars, ctxVars, dispVars, workers, chVars, count,
                   how, rcv, reply, outcome, early, taken, open>>

\* for _, val := range res.Numbers { ... }; i++
consumeFilter ==
    /\ cpc = "filter"
    /\ LET f == Filter(accumulator, visited, cur.Numbers) IN
         /\ accumulator' = f[1]
         /\ visited' = f[2]
         /\ accNil' = (accNil /\ f[1] = <<>>)
    /\ cur' = NoMsg
    /\ i' = i + 1
    /\ cpc' = "select"
    /\ UNCHANGED <<timeVars, reqVars, hVars, ctxVars, dispVars, workers, chVars, count,
                   how, rcv, histVars>>

\* A failure branch that gives up: the first failure ends the loop.
consumeErrReturns ==
    /\ variant \in {"pool", "sem"}
    /\ cpc = "select"
    /\ i < count
    /\ chErr # <<>>
    /\ chErr' = Tail(chErr)
    /\ rcv' = Append(rcv, Head(chErr).src)
    /\ i' = i + 1
    /\ accumulator' = SortInts(accumulator)
    /\ sorts' = sorts + 1
    /\ how' = "settled"
    /\ cpc' = "done"
    /\ UNCHANGED <<timeVars, reqVars, hVars, ctxVars, dispVars, workers, chRes, count,
                   accNil, visited, cur, reply, outcome, early, taken, open>>

\* A failure branch that does not count the failure.
consumeErrNotCounted ==
    /\ variant \in {"pool", "sem"}
    /\ cpc = "select"
    /\ i < count
    /\ chErr # <<>>
    /\ chErr' = Tail(chErr)
    /\ rcv' = Append(rcv, Head(chErr).src)
    /\ UNCHANGED <<timeVars, reqVars, hVars, ctxVars, dispVars, workers, chRes, cpc, i, count,
                   accumulator, accNil, visited, cur, how, histVars>>

\* case err := <-p.err: log.Println(err); i++
consumeErr ==
    /\ variant \in {"pool", "sem"}
    /\ cpc = "select"
    /\ i < count
    /\ chErr # <<>>
    /\ chErr' = Tail(chErr)
    /\ rcv' = Append(rcv, Head(chErr).src)
    /\ i' = i + 1
    /\ UNCHANGED <<timeVars, reqVars, hVars, ctxVars, dispVars, workers, chRes, cpc, count,
                   accumulator, accNil, visited, cur, how, histVars>>

\* The select without its ctx.Done() case.
consumeNoDeadline == FALSE /\ UNCHANGED vars

\* The deadline branch returning the accumulator as it is, unsorted.
consumeDoneUnsorted ==
    /\ cpc = "select"
    /\ i < count
    /\ Done
    /\ how' = "deadline"
    /\ cpc' = "done"
    /\ UNCHANGED <<timeVars, reqVars, hVars, ctxVars, dispVars, workers, chVars, i, count,
                   accumulator, accNil, visited, cur, rcv, histVars>>

\* A deadline branch that still files the result waiting at the head of the
\* result channel, without receiving it.
consumeDoneDrains ==
    /\ cpc = "select"
    /\ i < count
    /\ Done
    /\ accumulator' = SortInts(IF chRes = <<>> THEN accumulator
                               ELSE Filter(accumulator, visited, Head(chRes).Numbers)[1])
    /\ sorts' = sorts + 1
    /\ how' = "deadline"
    /\ cpc' = "done"
    /\ UNCHANGED <<timeVars, reqVars, hVars, ctxVars, dispVars, workers, chVars, i, count,
                   accNil, visited, cur, rcv,
                   reply, outcome, early, taken, open>>

\* case <-ctx.Done(): sort.Ints(accumulator); return accumulator
consumeDone ==
    /\ cpc = "select"
    /\ i < count
    /\ Done
    /\ accumulator' = SortInts(accumulator)
    /\ sorts' = sorts + 1
    /\ how' = "deadline"
    /\ cpc' = "done"
    /\ UNCHANGED <<timeVars, reqVars, hVars, ctxVars, dispVars, workers, chVars, i, count,
                   accNil, visited, cur, rcv,
                   reply, outcome, early, taken, open>>

\* The loop ends (i == count): sort.Ints(accumulator); return accumulator
consumeEnd ==
    /\ cpc = "select"
    /\ i >= count
    /\ accumulator' = SortInts(accumulator)
    /\ sorts' = sorts + 1
    /\ how' = "settled"
    /\ cpc' = "done"
    /\ UNCHANGED <<timeVars, reqVars, hVars, ctxVars, dispVars, workers, chVars, i, count,
                   accNil, visited, cur, rcv,
                   reply, outcome, early, taken, open>>

\* consume (and the collecting loop of validateAndFetch): one goroutine.
consume ==
    \/ consumeRes
    \/ consumeFilter
    \/ consumeErr
    \/ consumeDone
    \/ consumeEnd

\* ------------------------------------------------------------ specification

Next ==
    \/ numbersHandler
    \/ handlerReturn
    \/ Timeout
    \/ ClientDrop
    \/ fetchAllSpawn
    \/ fetchAllClose
    \/ \E g \in G : doWorkReceive(g)
    \/ \E g \in G : doWorkClosed(g)
    \/ \E g \in G : fetchRequest(g)
    \/ \E g \in G : fetchDecode(g)
    \/ \E g \in G : fetchSendErr(g)
    \/ \E g \in G : fetchSendRes(g)
    \/ consumeRes
    \/ consumeFilter
    \/ consumeErr
    \/ consumeDone
    \/ consumeEnd

Spec == Init /\ [][Next]_vars

\* The "sem" revision.
InitSem == variant = "sem" /\ InitCommon

NextSem ==
    \/ validateAndFetch
    \/ handlerReturn
    \/ Timeout
    \/ ClientDrop
    \/ \E g \in G : fetchAcquire(g)
    \/ \E g \in G : fetchRequest(g)
    \/ \E g \in G : fetchDecode(g)
    \/ \E g \in G : fetchSendErr(g)
    \/ \E g \in G : fetchSendRes(g)
    \/ consumeRes
    \/ consumeFilter
    \/ consumeErr
    \/ consumeDone
    \/ consumeEnd

SpecSem == InitSem /\ [][NextSem]_vars

\* The "orig" revision.
InitOrig == variant = "orig" /\ InitCommon

NextOrig ==
    \/ numberHandler
    \/ handlerReturn
    \/ Timeout
    \/ ClientDrop
    \/ \E g \in G : origFetchRequest(g)
    \/ \E g \in G : origFetchDecode(g)
    \/ \E g \in G : origFetchSend(g)
    \/ consumeRes
    \/ consumeFilter
    \/ consumeDone
    \/ consumeEnd

SpecOrig == InitOrig /\ [][NextOrig]_vars

\* The three revisions together.
InitAll == variant \in {"pool", "sem", "orig"} /\ InitCommon

NextAll ==
    \/ numbersHandler
    \/ validateAndFetch
    \/ numberHandler
    \/ handlerReturn
    \/ Timeout
    \/ ClientDrop
    \/ fetchAllSpawn
    \/ fetchAllClose
    \/ \E g \in G : doWorkReceive(g)
    \/ \E g \in G : doWorkClosed(g)
    \/ \E g \in G : fetchAcquire(g)
    \/ \E g \in G : fetchRequest(g)
    \/ \E g \in G : fetchDecode(g)
    \/ \E g \in G : fetchSendErr(g)
    \/ \E g \in G : fetchSendRes(g)
    \/ \E g \in G : origFetchRequest(g)
    \/ \E g \in G : origFetchDecode(g)
    \/ \E g \in G : origFetchSend(g)
    \/ consumeRes
    \/ consumeFilter
    \/ consumeErr
    \/ consumeDone
    \/ consumeEnd

SpecAll == InitAll /\ [][NextAll]_vars

\* The "pool" revision with the scheduler's guarantee that the goroutine
\* running consume, when it can take a step, eventually takes one.
SpecLive == Spec /\ WF_vars(consume)

\* Replaying one set of outcomes through consume twice. The first state is a
\* state of the "pool" revision in which the dispatcher has handed out every
\* url and each worker holds the outcome of its fetch, none sent yet; the
\* workers send in any order. When consume has returned, its output is kept
\* in body, the workers are given the same outcomes again and consume is
\* called a second time.
ReplaySources == min(maxConnections, MaxUrls)

Holding(g) ==
    IF g <= ReplaySources
    THEN [pc   |-> IF reply[g].status = StatusOK /\ reply[g].ok THEN "sendRes" ELSE "sendErr",
          src  |-> g,
          resp |-> reply[g]]
    ELSE IF g <= maxConnections THEN [NoWorker EXCEPT !.pc = "recv"]
    ELSE NoWorker

\* The responses the workers of a replay hold: their bodies are open.
HeldOpen == {g \in 1 .. ReplaySources : reply[g] # NoResp}

InitReplay ==
    /\ variant = "pool"
    /\ method = "GET"
    /\ timeoutPtr = "set"
    /\ urls = [k \in 1 .. ReplaySources |-> "a"]
    /\ hpc = "consume"
    /\ status = 0
    /\ released = FALSE
    /\ body = NoBody
    /\ ctx = "live"
    /\ clientGone = FALSE
    /\ dpc = "send"
    /\ next = ReplaySources + 1
    /\ closed = FALSE
    /\ reply \in [1 .. MaxLen -> Responses \cup {NoResp}]
    /\ \A k \in 1 .. MaxLen : k > ReplaySources => reply[k] = NoResp
    /\ workers = [g \in G |-> Holding(g)]
    /\ chRes = <<>>
    /\ chErr = <<>>
    /\ cpc = "select"
    /\ i = 0
    /\ count = ReplaySources
    /\ accumulator = <<>>
    /\ accNil = FALSE
    /\ visited = {}
    /\ cur = NoMsg
    /\ how = "none"
    /\ outcome = [k \in 1 .. MaxLen |-> "none"]
    /\ early = {}
    /\ taken = <<>>
    /\ sorts = 0
    /\ open = HeldOpen
    /\ rcv = <<>>
    /\ clock = 0
    /\ latency = 0

\* The second call of consume: accumulator := make([]int, 0), visited :=
\* make(map[int]struct{}), i := 0, on the same outcomes.
Replay ==
    /\ hpc = "consume"
    /\ cpc = "done"
    /\ how = "settled"
    /\ hpc' = "replay"
    /\ body' = Encode(accNil, accumulator)
    /\ workers' = [g \in G |-> Holding(g)]
    /\ cpc' = "select"
    /\ i' = 0
    /\ accumulator' = <<>>
    /\ visited' = {}
    /\ how' = "none"
    /\ open' = HeldOpen
    /\ UNCHANGED <<timeVars, reqVars, status, released, ctxVars, dispVars, chVars, count, accNil, cur,
                   rcv, reply, outcome, early, taken, sorts>>

NextReplay ==
    \/ \E g \in G : fetchSendErr(g)
    \/ \E g \in G : fetchSendRes(g)
    \/ consumeRes
    \/ consumeFilter
    \/ consumeErr
    \/ consumeEnd
    \/ Replay

SpecReplay == InitReplay /\ [][NextReplay]_vars

\* ---------------------------------------------------------------- claims

StrictlyAscending(s) == \A k \in 1 .. Len(s) - 1 : s[k] < s[k + 1]

RECURSIVE SetToSortedSeq(_)
SetToSortedSeq(S) ==
    IF S = {} THEN <<>>
    ELSE LET m == CHOOSE x \in S : \A y \in S : x <= y
         IN  <<m>> \o SetToSortedSeq(S \ {m})

Sources == 1 .. Len(urls)

\* The sources whose SourceResult the collecting loop has received.
Received == {s \in Range(rcv) : outcome[s] = "res"}

\* The values of a set of sources, as the sources answered them.
ValuesOf(S) == UNION {Range(reply[s].Numbers) : s \in S}

\* C1: whatever the SourceList, the answers, the interleaving and the moment
\* of the deadline, the sequence the aggregator returns, and the one the
\* handler encodes, is strictly ascending: sorted and without duplicates.
C1_SortedNoDuplicates ==
    /\ cpc = "done" => StrictlyAscending(accumulator)
    /\ body.kind = "json" => StrictlyAscending(body.numbers)

\* A request answered with three values gathered from two sources that
\* repeat values within and across their payloads.
C1_Witness ==
    /\ hpc = "done"
    /\ body.kind = "json"
    /\ Len(body.numbers) = 3
    /\ Cardinality(Received) = 2

\* C2: once ctx is done while the aggregator is collecting, the aggregator
\* eventually returns, whether or not any source has produced an outcome;
\* and what it returns holds only values of sources that answered.
C2_ReturnsAfterDeadline ==
    /\ (Done /\ cpc \in {"select", "filter"}) ~> (cpc = "done")
    /\ [](cpc = "done" =>
            Range(accumulator) \subseteq ValuesOf({s \in Sources : reply[s] # NoResp}))

\* The aggregator returned by the deadline although no source of a list of
\* two well-formed sources ever produced an outcome.
C2_Witness ==
    /\ cpc = "done"
    /\ how = "deadline"
    /\ urls = <<"a", "a">>
    /\ \A s \in Sources : reply[s] = NoResp /\ outcome[s] = "none"
    /\ accumulator = <<>>

\* C3: every value of a SourceResult the aggregator received is in the final
\* output; and when the aggregator finishes because all sources settled, the
\* output is exactly the sorted union of the payloads of the sources whose
\* fetch succeeded.
C3_ReceivedValuesKept ==
    /\ cpc = "done" => ValuesOf(Received) \subseteq Range(accumulator)
    /\ how = "settled" =>
          accumulator = SetToSortedSeq(ValuesOf({s \in Sources : outcome[s] = "res"}))

\* All sources settled, two of them with different payloads.
C3_Witness ==
    /\ how = "settled"
    /\ Cardinality(Received) = 2
    /\ accumulator = <<1, 2, 3>>


\* Nothing of the core has been touched: no goroutine, no queue, no channel
\* traffic, no collecting loop, no source contacted.
CoreUntouched ==
    /\ dpc = "idle" /\ next = 1 /\ ~closed
    /\ \A g \in G : workers[g] = NoWorker
    /\ chRes = <<>> /\ chErr = <<>>
    /\ cpc = "idle" /\ i = 0 /\ how = "none" /\ rcv = <<>>
    /\ \A s \in 1 .. MaxLen : reply[s] = NoResp /\ outcome[s] = "none"

\* C4: a GET request without sources never touches the core, is answered in
\* the handler's first step, which is enabled whatever the deadline timer
\* does, with the empty sequence, and the deadline never expires on it.
C4_EmptyListShortCircuits ==
    (method = "GET" /\ urls = <<>>) =>
        /\ CoreUntouched
        /\ ctx # "DeadlineExceeded" /\ ctx # "live"
        /\ hpc \in {"start", "done"}
        /\ hpc = "start" => ENABLED numbersHandler
        /\ hpc = "done" => status = StatusOK /\ body = Encode(FALSE, <<>>)

\* The empty request has been answered.
C4_Witness ==
    /\ method = "GET"
    /\ urls = <<>>
    /\ hpc = "done"
    /\ body = Encode(FALSE, <<>>)

\* C5: on every GET path the value under "numbers" is a sequence, never null.
\* The "orig" revision (numbers.go) violates it: it encodes the nil slice.
C5_NeverNull ==
    (method = "GET" /\ body.kind = "json") => ~body.null

\* C6: a request whose method is not GET is answered 403 and never enters
\* the core, whatever its query parameters: no deadline context is made, no
\* goroutine started, no source fetched, no collecting loop run.
C6_NonGetForbidden ==
    method # "GET" =>
        /\ CoreUntouched
        /\ ctx = "none"
        /\ hpc \in {"start", "done"}
        /\ hpc = "done" => status = 403 /\ body.kind = "text"

\* A POST with two well-formed sources has been answered.
C6_Witness ==
    /\ method = "POST"
    /\ urls = <<"a", "a">>
    /\ hpc = "done"
    /\ status = 403

\* C7: every answered GET request carries status 200 and a sorted sequence,
\* whatever sources were malformed, failed, answered a non-success status,
\* could not be decoded or were cut off by the deadline.
C7_FailuresNeverSurface ==
    (method = "GET" /\ hpc = "done") =>
        /\ status = StatusOK
        /\ body.kind = "json"
        /\ ~body.null
        /\ StrictlyAscending(body.numbers)
        /\ body.numbers = SetToSortedSeq(ValuesOf(Received))

\* A request answered with the values of one source while the other source
\* failed and its failure was received.
C7_Witness ==
    /\ method = "GET"
    /\ hpc = "done"
    /\ status = StatusOK
    /\ body.numbers # <<>>
    /\ \E s \in Range(rcv) : outcome[s] = "err"

\* A source that answered 200 with a decodable body.
AnsweredOk(s) == reply[s].status = StatusOK /\ reply[s].ok

\* C8 as stated: with two sources, the first of which had its result in the
\* result channel before the deadline fired and the second of which had not
\* answered by then, the output is exactly the first source's sorted
\* distinct values.
C8_Original ==
    \A a, b \in Sources :
        (/\ Len(urls) = 2 /\ a # b
         /\ cpc = "done"
         /\ ctx = "DeadlineExceeded"
         /\ a \in early
         /\ reply[b] = NoResp)
        => accumulator = SetToSortedSeq(ValuesOf({a}))

\* C8 amended: with two sources, the second of which does not answer before
\* the deadline, the output is exactly the first source's sorted distinct
\* values when the aggregator received the first source's result before it
\* observed the deadline, and empty otherwise; it holds no value that only
\* the second source could give.
C8_InTimeSourceOnly ==
    \A a, b \in Sources :
        (/\ Len(urls) = 2 /\ a # b
         /\ cpc = "done"
         /\ AnsweredOk(a)
         /\ reply[b] = NoResp)
        => accumulator = IF a \in Received THEN SetToSortedSeq(ValuesOf({a})) ELSE <<>>

\* The first source's result was received, then the deadline fired with the
\* second source still silent.
C8_Witness ==
    /\ urls = <<"a", "a">>
    /\ cpc = "done"
    /\ how = "deadline"
    /\ ctx = "DeadlineExceeded"
    /\ 1 \in Received
    /\ reply[2] = NoResp
    /\ accumulator = <<1, 2>>

\* A source that answered a status other than 200.
AnsweredBadStatus(s) == reply[s].status # 0 /\ reply[s].status # StatusOK

\* C9 as stated: a source that answers a non-success status produces no
\* SourceResult, and every other source whose result was in the result
\* channel before the deadline fired has all its values in the output.
C9_Original ==
    \A a \in Sources :
        AnsweredBadStatus(a) =>
            /\ outcome[a] # "res"
            /\ cpc = "done" =>
                  \A b \in early \ {a} : ValuesOf({b}) \subseteq Range(accumulator)

\* C9 amended: a source that answers a non-success status produces no
\* SourceResult and at most one failure, which advances the aggregator's
\* count by one; the output is exactly the sorted values of the other
\* sources whose result the aggregator received before it observed the
\* deadline.
C9_BadStatusContributesNothing ==
    \A a \in Sources :
        AnsweredBadStatus(a) =>
            /\ outcome[a] \in {"none", "err"}
            /\ \A k \in 1 .. Len(chRes) : chRes[k].src # a
            /\ cur.src # a
            /\ a \notin Received
            /\ Cardinality({k \in 1 .. Len(rcv) : rcv[k] = a}) <= 1
            /\ cpc = "select" => i = Len(rcv)
            /\ cpc = "done" =>
                  accumulator = SetToSortedSeq(ValuesOf(Received \ {a}))

\* One source answered 503 with the payload 3, 2; its failure and the other
\* source's result 2, 1, 1 were both received.
C9_Witness ==
    /\ Len(urls) = 2
    /\ how = "settled"
    /\ reply[1].status = 503
    /\ reply[1].Numbers = <<3, 2>>
    /\ 1 \in Range(rcv)
    /\ 2 \in Received
    /\ accumulator = <<1, 2>>

\* The arrival orders of the two runs of a replay.
FirstOrder == SubSeq(rcv, 1, ReplaySources)
SecondOrder == SubSeq(rcv, ReplaySources + 1, 2 * ReplaySources)

\* C10: when consume receives the same outcomes in two runs, in whatever
\* orders, and both runs end because all sources settled, the second output
\* equals the first.
C10_ArrivalOrderIrrelevant ==
    (hpc = "replay" /\ how = "settled") => accumulator = body.numbers

\* Two runs that received the outcomes in different orders, with payloads
\* that overlap.
C10_Witness ==
    /\ hpc = "replay"
    /\ how = "settled"
    /\ Len(rcv) = 2 * ReplaySources
    /\ FirstOrder # SecondOrder
    /\ Cardinality(Received) >= 2
    /\ Cardinality(Range(accumulator)) = 3

\* ------------------------------------------------------------------- time

\* How long a source sleeps before it answers: the two test sources
\* (justInTimeHandler, timeOutHandler) and one slower than every deadline.
Latencies == {440, 451, 60000}

\* context.WithTimeout(ctx, d): d in milliseconds.
Deadline == IF variant = "orig" THEN numbersTimeout ELSE timeout

\* The moments at which something can happen.
Instants == {0, numbersTimeout, individualTimeout, timeout} \cup Latencies

NextInstant == CHOOSE t \in Instants : t > clock /\ \A u \in Instants : u > clock => t <= u

\* One GET with one source that answers after latency milliseconds with
\* status 200 and a body that decodes.
InitTimed ==
    /\ variant \in {"pool", "sem", "orig"}
    /\ method = "GET"
    /\ urls = <<"a">>
    /\ clock = 0
    /\ latency \in Latencies
    /\ InitProgram

\* The timer of the deadline fires when the deadline has passed.
DeadlineTimer == clock >= Deadline /\ Timeout

\* The transport of the "pool" revision gives up on a source that has not
\* sent its header within individualTimeout.
HeaderLate == variant = "pool" /\ latency > individualTimeout

\* The round trip of fetch against the sleeping source: it is aborted when
\* ctx is done, it fails at the header timeout, or the source answers.
TimedFetch(g) ==
    /\ IF variant = "orig" THEN origFetchRequest(g) ELSE fetchRequest(g)
    /\ \/ Done
       \/ /\ ~Done
          /\ HeaderLate
          /\ clock >= individualTimeout
          /\ workers'[g].pc # "decode"
       \/ /\ ~Done
          /\ ~HeaderLate
          /\ clock >= latency
          /\ workers'[g].pc = "decode"
          /\ workers'[g].resp.status = StatusOK
          /\ workers'[g].resp.ok

\* The steps of the program; they take no time.
Step ==
    \/ numbersHandler
    \/ validateAndFetch
    \/ numberHandler
    \/ handlerReturn
    \/ DeadlineTimer
    \/ fetchAllSpawn
    \/ fetchAllClose
    \/ \E g \in G : doWorkReceive(g)
    \/ \E g \in G : doWorkClosed(g)
    \/ \E g \in G : fetchAcquire(g)
    \/ \E g \in G : TimedFetch(g)
    \/ \E g \in G : fetchDecode(g)
    \/ \E g \in G : fetchSendErr(g)
    \/ \E g \in G : fetchSendRes(g)
    \/ \E g \in G : origFetchDecode(g)
    \/ \E g \in G : origFetchSend(g)
    \/ consume

\* Time passes, to the next moment, when the program waits.
Tick ==
    /\ hpc # "done"
    /\ \E t \in Instants : t > clock
    /\ ~ENABLED Step
    /\ clock' = NextInstant
    /\ UNCHANGED <<latency, reqVars, hVars, ctxVars, dispVars, workers, chVars,
                   consVars, histVars>>

NextTimed ==
    \/ numbersHandler
    \/ validateAndFetch
    \/ numberHandler
    \/ handlerReturn
    \/ DeadlineTimer
    \/ Tick
    \/ fetchAllSpawn
    \/ fetchAllClose
    \/ \E g \in G : doWorkReceive(g)
    \/ \E g \in G : doWorkClosed(g)
    \/ \E g \in G : fetchAcquire(g)
    \/ \E g \in G : TimedFetch(g)
    \/ \E g \in G : fetchDecode(g)
    \/ \E g \in G : fetchSendErr(g)
    \/ \E g \in G : fetchSendRes(g)
    \/ \E g \in G : origFetchDecode(g)
    \/ \E g \in G : origFetchSend(g)
    \/ consumeRes
    \/ consumeFilter
    \/ consumeErr
    \/ consumeDone
    \/ consumeEnd

SpecTimed == InitTimed /\ [][NextTimed]_vars

\* C11: the deadline of a request is 450 ms from its arrival: the values of
\* a single source that answers after 440 ms are all in the response, and a
\* single source that answers after 451 ms leaves the response empty.
C11_Deadline450 ==
    hpc = "done" =>
        /\ latency = 440 => /\ reply[1] # NoResp
                            /\ body.numbers = SetToSortedSeq(Range(reply[1].Numbers))
        /\ latency = 451 => body.numbers = <<>>

\* The same for the request handled by numbers.go.
C11_Deadline450Orig == variant = "orig" => C11_Deadline450

\* The first half of it, in every revision.
C11_JustInTime ==
    hpc = "done" /\ latency = 440 => body.numbers = SetToSortedSeq(Range(reply[1].Numbers))

\* The accepted sources whose fetch has not yet handed over its outcome.
Pending == {s \in 1 .. Len(urls) : ~Malformed(urls[s]) /\ outcome[s] = "none"}

\* C12: a source that validation rejects is never handed to a fetch and is
\* not among the outcomes the collecting loop counts: what the loop still
\* waits for is exactly the accepted sources without an outcome plus what
\* lies in the channels, and once every accepted source has its outcome the
\* loop can run to all-sources-settled without the deadline.
C12_RejectedNotCounted ==
    /\ \A g \in G : workers[g].src # 0 => ~Malformed(urls[workers[g].src])
    /\ \A s \in 1 .. Len(urls) :
          Malformed(urls[s]) => outcome[s] = "none" /\ reply[s] = NoResp
    /\ cpc \in {"select", "filter"} =>
          count = i + (IF cpc = "filter" THEN 1 ELSE 0)
                    + Len(chRes) + Len(chErr) + Cardinality(Pending)
    /\ cpc \in {"select", "filter"} /\ Pending = {} =>
          ENABLED (consumeRes \/ consumeFilter \/ consumeErr \/ consumeEnd)
    /\ how = "deadline" => Pending # {} \/ Len(chRes) + Len(chErr) > 0

\* A request with a rejected and an accepted entry ends by
\* all-sources-settled while the deadline has not fired.
C12_Witness ==
    /\ variant = "sem"
    /\ \E k \in 1 .. Len(urls) : Malformed(urls[k])
    /\ \E k \in 1 .. Len(urls) : k \in Range(rcv)
    /\ cpc = "done"
    /\ how = "settled"
    /\ ctx = "live"

\* Every entry is rejected and the request ends by all-sources-settled.
C12_WitnessAllRejected ==
    /\ variant = "sem"
    /\ urls # <<>>
    /\ \A k \in 1 .. Len(urls) : Malformed(urls[k])
    /\ how = "settled"
    /\ ctx = "live"

\* C13: when the caller's context is cancelled the derived context is done in
\* the same step; a fetch in flight then ends as a failure and, the goroutine
\* of the collecting loop being scheduled, the loop returns, as after a
\* timeout.
C13_CancellationTransitive ==
    /\ [](clientGone /\ ctx # "none" => Done)
    /\ [][\A g \in G :
            Done /\ workers[g].pc = "fetch" /\ workers'[g] # workers[g]
                => workers'[g].pc = "sendErr"]_vars
    /\ (clientGone /\ hpc = "consume") ~> (cpc = "done")

\* The client dropped while a fetch was in flight: the derived context is
\* cancelled, the loop has returned by its ctx.Done() case and the fetch has
\* yet to see the cancellation.
C13_Witness ==
    /\ clientGone
    /\ ctx = "Canceled"
    /\ hpc = "consume"
    /\ cpc = "done"
    /\ how = "deadline"
    /\ \E g \in G : workers[g].pc = "fetch"

\* The messages of source s: those in the two channels and those received.
InChannel(ch, s) == Cardinality({k \in 1 .. Len(ch) : ch[k].src = s})

Msgs(s) == InChannel(chRes, s) + InChannel(chErr, s)
              + Cardinality({k \in 1 .. Len(rcv) : rcv[k] = s})

\* fetch has been called for source s / is running for it / has returned.
Started(s) ==
    IF variant = "pool" THEN s < next /\ urls[s] # ""
    ELSE cpc # "idle" /\ ~Malformed(urls[s])

Held(s) == \E g \in G : workers[g].src = s

Ended(s) == Started(s) /\ ~Held(s)

\* C14: a fetch (server.go) that has returned has sent exactly one message, on
\* the result channel or on the error channel; a fetch never sends twice and
\* never on both.
C14_ExactlyOneOutcome ==
    variant \in {"pool", "sem"} =>
        \A s \in Sources :
            /\ Msgs(s) <= 1
            /\ Ended(s) => Msgs(s) = 1
            /\ Held(s) => Msgs(s) = 0
            /\ Msgs(s) = 1 <=> outcome[s] \in {"res", "err"}
            /\ InChannel(chRes, s) = 1 => outcome[s] = "res"
            /\ InChannel(chErr, s) = 1 => outcome[s] = "err"

\* Two fetches of the pool have returned, one through p.res <- number, one
\* through p.err <- ...
C14_Witness ==
    /\ variant = "pool"
    /\ Len(urls) = 2
    /\ Ended(1) /\ Ended(2)
    /\ {outcome[1], outcome[2]} = {"res", "err"}

\* The steps of the request's goroutines in the "pool" revision: every step
\* but the firing of the deadline and the drop of the client.
PoolStep ==
    \/ numbersHandler
    \/ handlerReturn
    \/ fetchAllSpawn
    \/ fetchAllClose
    \/ \E g \in G : doWorkReceive(g)
    \/ \E g \in G : doWorkClosed(g)
    \/ \E g \in G : fetchRequest(g)
    \/ \E g \in G : fetchDecode(g)
    \/ \E g \in G : fetchSendErr(g)
    \/ \E g \in G : fetchSendRes(g)
    \/ consume

\* C15: in the "pool" revision, while the deadline has not fired, every entry
\* of the SourceList that a worker took from the queue gets exactly one
\* outcome, and the collecting loop is never left waiting for the deadline:
\* until it has returned some goroutine of the request can take a step, and
\* it returns by all-sources-settled.
C15_EveryEntrySettles ==
    variant = "pool" /\ hpc = "consume" /\ ~Done =>
        /\ \A s \in Sources : s < next /\ ~Held(s) => Msgs(s) = 1
        /\ cpc # "done" => ENABLED PoolStep
        /\ cpc = "done" => how = "settled"

\* The same for a SourceList without an empty string.
C15_WithoutEmptyEntries ==
    (\A k \in 1 .. Len(urls) : urls[k] # "") => C15_EveryEntrySettles

\* ------------------------------------------- more sources than workers

\* A GET whose SourceList has one entry more than the pool has workers (and
\* the semaphore has places), handled by server.go.
InitLong ==
    /\ variant \in {"pool", "sem"}
    /\ method = "GET"
    /\ urls \in {u \in SeqsUpTo(Urls, maxConnections + 1) : Len(u) = maxConnections + 1}
    /\ clock = 0
    /\ latency = 0
    /\ InitProgram

NextLong ==
    \/ numbersHandler
    \/ validateAndFetch
    \/ handlerReturn
    \/ Timeout
    \/ ClientDrop
    \/ fetchAllSpawn
    \/ fetchAllClose
    \/ \E g \in G : doWorkReceive(g)
    \/ \E g \in G : doWorkClosed(g)
    \/ \E g \in G : fetchAcquire(g)
    \/ \E g \in G : fetchRequest(g)
    \/ \E g \in G : fetchDecode(g)
    \/ \E g \in G : fetchSendErr(g)
    \/ \E g \in G : fetchSendRes(g)
    \/ consumeRes
    \/ consumeFilter
    \/ consumeErr
    \/ consumeDone
    \/ consumeEnd

SpecLong == InitLong /\ [][NextLong]_vars

\* C16: a worker of the pool returns only when the queue has been closed: no
\* worker returns while the queue is open.
C16_ExitOnlyWhenClosed ==
    [][\A g \in G : workers[g].pc # "exit" /\ workers'[g].pc = "exit" => closed]_vars

\* The same for a SourceList without an empty string.
C16_WithoutEmptyEntries ==
    [][(\A k \in 1 .. Len(urls) : urls[k] # "") =>
          \A g \in G : workers[g].pc # "exit" /\ workers'[g].pc = "exit" => closed]_vars

\* A send on, or a receive from, a buffered channel, or nothing.
ChannelStep(ch, chNext) ==
    \/ chNext = ch
    \/ ch # <<>> /\ chNext = Tail(ch)
    \/ Len(chNext) = Len(ch) + 1 /\ SubSeq(chNext, 1, Len(ch)) = ch

\* C17: the queue is closed by the dispatcher alone, once, when it has handed
\* out the last url; nothing is sent on it afterwards; the result and the
\* error channel only ever take sends and receives.
C17_ClosedOnceAfterLast ==
    /\ [](closed => dpc = "done" /\ next > Len(urls) /\ Len(taken) = Len(urls))
    /\ [][closed => closed' /\ next' = next /\ taken' = taken]_vars
    /\ [][~closed /\ closed' => dpc = "send" /\ dpc' = "done"]_vars
    /\ [][dpc = "done" => dpc' = "done"]_vars
    /\ [][ChannelStep(chRes, chRes') /\ ChannelStep(chErr, chErr')]_vars

\* The queue is closed while a worker still has its outcome to send.
C17_Witness ==
    /\ closed
    /\ Len(urls) = 2
    /\ \E g \in G : workers[g].pc \in {"fetch", "decode", "sendErr", "sendRes"}

\* C18: in the "pool" revision, when the handler has returned and no
\* goroutine of the request can take a step any more, the dispatcher has
\* closed the queue and every worker has returned.
C18_NoGoroutineLeft ==
    variant = "pool" /\ hpc = "done" /\ dpc # "idle" /\ ~ENABLED PoolStep =>
        /\ dpc = "done"
        /\ \A g \in 1 .. maxConnections : workers[g].pc = "exit"

\* The same for a SourceList without an empty string.
C18_WithoutEmptyEntries ==
    (\A k \in 1 .. Len(urls) : urls[k] # "") => C18_NoGoroutineLeft

\* The round trips started and not finished.
InFlight == Cardinality({g \in G : workers[g].pc \in {"fetch", "decode"}})

\* C19: never more than maxConnections fetches are in flight; the pool has
\* exactly maxConnections workers from its start on, whatever the length of
\* the SourceList.
C19_InFlightAtMostPool ==
    /\ InFlight <= maxConnections
    /\ variant = "pool" =>
          Cardinality({g \in G : workers[g].pc # "none"})
              = IF dpc \in {"send", "done"} THEN maxConnections ELSE 0

\* Every worker of the pool is fetching and a source is still queued.
C19_Witness ==
    /\ variant = "pool"
    /\ InFlight = maxConnections
    /\ Len(urls) > maxConnections
    /\ next <= Len(urls)

\* The semaphore of the "sem" revision is full and a fetch waits for it.
C19_WitnessSem ==
    /\ variant = "sem"
    /\ InFlight = maxConnections
    /\ \E g \in G : workers[g].pc = "acquire"

\* C20: the k-th string a worker takes from the queue is the k-th entry of
\* the SourceList.
C20_HandedInListOrder ==
    /\ Len(taken) = next - 1
    /\ Len(taken) <= Len(urls)
    /\ \A k \in 1 .. Len(taken) : taken[k] = urls[k]

\* Two different sources were handed out in list order and the outcome of
\* the second reached consume before that of the first.
C20_Witness ==
    /\ Len(urls) = 2
    /\ urls[1] # urls[2]
    /\ taken = urls
    /\ rcv = <<2, 1>>

\* The same with the outcomes received in list order.
C20_WitnessInOrder ==
    /\ Len(urls) = 2
    /\ urls[1] # urls[2]
    /\ taken = urls
    /\ rcv = <<1, 2>>

\* The collecting loop has not returned.
Collecting == cpc \in {"select", "filter"}

\* C21: while the collecting loop runs, a goroutine that has an outcome to
\* send finds room in the channel it sends on.
C21_SendNeverBlocks ==
    Collecting =>
        \A g \in G :
            /\ workers[g].pc = "sendErr" => Len(chErr) < Cap
            /\ workers[g].pc = "sendRes" => Len(chRes) < Cap

\* The same for the "sem" revision, and for the pool when the SourceList is
\* no longer than the pool is wide.
C21_PerSourceGoroutines ==
    variant = "sem" \/ Len(urls) <= maxConnections => C21_SendNeverBlocks

\* C22: the collecting loop returns by all-sources-settled exactly when it
\* has received count outcomes, a failure counting as a result does; the
\* receipt of a failure leaves the accumulator as it is.
C22_SettledAtCount ==
    /\ [](Collecting => /\ i + (IF cpc = "filter" THEN 1 ELSE 0) = Len(rcv)
                        /\ i <= count)
    /\ [](how = "settled" => i = count /\ Len(rcv) = count)
    /\ [](how = "deadline" => i < count)
    /\ [](cpc = "select" /\ i = count =>
             ENABLED consumeEnd /\ ~ENABLED (consumeRes \/ consumeErr \/ consumeDone))
    /\ [](cpc = "select" /\ i < count => ~ENABLED consumeEnd)
    /\ [][Len(rcv') = Len(rcv) + 1 /\ outcome[rcv'[Len(rcv')]] = "err" =>
            i' = i + 1 /\ accumulator' = accumulator /\ visited' = visited]_vars
    /\ [][i' = i \/ i' = i + 1]_vars

\* The loop has returned by all-sources-settled after one failure and one
\* result.
C22_Witness ==
    /\ how = "settled"
    /\ count = 2
    /\ \E s, t \in Range(rcv) : outcome[s] = "err" /\ outcome[t] = "res"

\* C23: once ctx is done the collecting loop receives no further outcome.
C23_NothingReceivedAfterExpiry ==
    [][Done => rcv' = rcv]_vars

\* The weaker statement that does hold: once the loop has returned nothing is
\* received, and a loop that finds ctx done and both channels empty returns
\* without receiving.
C23_NothingReceivedAfterReturn ==
    [][cpc = "done" \/ (Done /\ cpc = "select" /\ chRes = <<>> /\ chErr = <<>> /\ i < count)
          => rcv' = rcv]_vars

\* C24: the collecting loop is either running or has returned; it returns
\* once, either by all-sources-settled (count outcomes received) or by the
\* deadline (ctx done, fewer than count received), never by the failure of a
\* source; after its return the accumulator and visited stay as they are.
C24_CollectingThenDone ==
    /\ [](cpc \in {"idle", "select", "filter", "done"})
    /\ [](how \in {"none", "settled", "deadline"})
    /\ [](cpc = "done" <=> how # "none")
    /\ [][cpc = "done" =>
            cpc' = "done" /\ how' = how /\ accumulator' = accumulator
                /\ visited' = visited /\ i' = i]_vars
    /\ [][cpc # "done" /\ cpc' = "done" =>
            \/ how' = "settled" /\ i = count /\ rcv' = rcv
            \/ how' = "deadline" /\ Done /\ i < count /\ rcv' = rcv]_vars
    /\ [][Len(rcv') = Len(rcv) + 1 /\ outcome[rcv'[Len(rcv')]] = "err" => cpc' = cpc]_vars

\* The loop has returned by the deadline after it had received a failure,
\* and a result sent after its return lies in the channel.
C24_Witness ==
    /\ cpc = "done"
    /\ how = "deadline"
    /\ \E s \in Range(rcv) : outcome[s] = "err"
    /\ chRes # <<>>

\* C25: between two iterations of the collecting loop, and after it, the
\* values of the accumulator are exactly the members of visited, each held
\* once; an iteration adds to both the values of the result that visited did
\* not hold and nothing else.
C25_AccumulatorIsVisited ==
    /\ [](Range(accumulator) = visited)
    /\ [](Len(accumulator) = Cardinality(visited))
    /\ [][visited' # visited =>
            /\ cpc = "filter"
            /\ visited' = visited \cup Range(cur.Numbers)
            /\ Range(accumulator') = Range(accumulator) \cup (Range(cur.Numbers) \ visited)
            /\ Len(accumulator') = Len(accumulator) + Cardinality(Range(cur.Numbers) \ visited)]_vars

\* Two results with a common value and a repeated value have been filtered.
C25_Witness ==
    /\ cpc = "select"
    /\ Len(rcv) = 2
    /\ visited = {1, 2, 3}
    /\ Len(accumulator) = 3

\* C26: sort.Ints is called once, in the step by which the collecting loop
\* returns, after the last outcome it receives; until then the accumulator
\* only grows at its end.
C26_SortedOnceAtDone ==
    /\ [](sorts = IF cpc = "done" THEN 1 ELSE 0)
    /\ [][sorts' # sorts =>
            /\ cpc # "done" /\ cpc' = "done"
            /\ rcv' = rcv
            /\ accumulator' = SortInts(accumulator)]_vars
    /\ [][cpc' # "done" =>
            /\ Len(accumulator') >= Len(accumulator)
            /\ SubSeq(accumulator', 1, Len(accumulator)) = accumulator]_vars
    /\ [][cpc = "done" => rcv' = rcv /\ accumulator' = accumulator]_vars

\* Two results were received, their values appended out of order, and the
\* one sort at the return put them in order.
C26_Witness ==
    /\ cpc = "done"
    /\ sorts = 1
    /\ Len(rcv) = 2
    /\ accumulator = <<1, 2, 3>>
    /\ reply[rcv[1]].Numbers = <<2, 1, 1>>

\* A step by which the fetch of goroutine g fails, or reports its failure.
FailureStep(g) ==
    \/ workers[g].pc \in {"fetch", "decode"} /\ workers'[g].pc \in {"sendErr", "exit"}
    \/ workers[g].pc = "sendErr" /\ workers'[g].pc # "sendErr"

\* C27: the failure of a fetch leaves ctx, every other goroutine's fetch and
\* the dispatcher as they are; ctx becomes done only by its timer, by the
\* client's drop or by the handler's return.
C27_CancellationTopDownOnly ==
    /\ [][\A g \in G : FailureStep(g) =>
            /\ ctx' = ctx
            /\ clientGone' = clientGone
            /\ dpc' = dpc /\ next' = next /\ closed' = closed
            /\ \A h \in G \ {g} : workers'[h] = workers[h]]_vars
    /\ [][~Done /\ Done' =>
            \/ ctx = "live" /\ ctx' = "DeadlineExceeded" /\ workers' = workers
            \/ ~clientGone /\ clientGone' /\ workers' = workers
            \/ ctx = "none" /\ clientGone /\ hpc = "start"
            \/ hpc # "done" /\ hpc' = "done"]_vars

\* The failure of one source was received, then the result of another, and
\* ctx is still live.
C27_Witness ==
    /\ ctx = "live"
    /\ Len(rcv) = 2
    /\ outcome[rcv[1]] = "err"
    /\ outcome[rcv[2]] = "res"

\* C28: ctx, once done, keeps its value; when the handling of a request that
\* made a context has ended, the deferred cancel has run and ctx is done,
\* whichever way the handling ended.
C28_TokenOneShotReleased ==
    /\ [][Done => ctx' = ctx]_vars
    /\ [](hpc = "done" /\ (method = "GET" \/ variant = "orig") => released /\ Done)
    /\ [](released => hpc = "done")
    /\ [][released => released']_vars

\* The handler has returned after the deadline fired.
C28_Witness ==
    /\ hpc = "done"
    /\ how = "deadline"
    /\ ctx = "DeadlineExceeded"
    /\ released

\* The handler has returned after all sources settled.
C28_WitnessSettled ==
    /\ hpc = "done"
    /\ how = "settled"
    /\ ctx = "Canceled"
    /\ released

\* The handler has returned on an empty SourceList.
C28_WitnessEmpty ==
    /\ hpc = "done"
    /\ method = "GET"
    /\ urls = <<>>
    /\ ctx = "Canceled"
    /\ released

\* C29: a fetch whose network operation (the round trip or the reading of
\* the body) is under way when ctx becomes done sends no result.
C29_NoResultAfterExpiryInFlight ==
    [][\A g \in G :
          Done /\ workers[g].pc \in {"fetch", "decode"} => workers'[g].pc # "sendRes"]_vars

\* What holds: a round trip under way when ctx becomes done fails, no source
\* answers after that moment, and a source without an answer sends no
\* result and has no value in the output.
C29_RoundTripAborted ==
    /\ [][Done => reply' = reply]_vars
    /\ [][\A g \in G :
            Done /\ workers[g].pc = "fetch" /\ workers'[g] # workers[g]
                => workers'[g].pc \in {"sendErr", "exit"}]_vars
    /\ [](\A s \in Sources : reply[s] = NoResp => outcome[s] # "res")
    /\ [](hpc = "done" =>
            Range(body.numbers) \subseteq ValuesOf({s \in Sources : reply[s] # NoResp}))

\* C30: a response body is open only while the fetch that obtained it runs:
\* when fetch has returned, the body is closed.
C30_BodyClosedOnReturn ==
    \A s \in open : \E g \in G : workers[g].src = s /\ workers[g].pc \in {"decode", "sendErr", "sendRes"}

\* The same for the fetch functions of server.go.
C30_ServerGo == variant # "orig" => C30_BodyClosedOnReturn

\* ------------------------------------------------------------------- C31

\* A step of the aggregator: consume moves, and neither the dispatcher nor
\* any worker or fetch does.
AggregatorStep == cpc' # cpc /\ workers' = workers /\ dispVars' = dispVars

\* C31: the accumulator (the output collection and the membership set) is
\* written only by the aggregator: a step that changes either is a step of
\* consume in which no dispatcher, worker or fetch moves, so every step of
\* those leaves both unchanged; and values travel from a fetch to the
\* aggregator through the result channel only: what the aggregator takes up
\* is the head of the result channel, what a fetch puts there is what its
\* source answered, and what the aggregator files is what it took up.
C31_OnlyAggregatorWrites ==
    /\ [][(accumulator' # accumulator \/ visited' # visited) => AggregatorStep]_vars
    /\ [][(workers' # workers \/ dispVars' # dispVars)
            => accumulator' = accumulator /\ visited' = visited]_vars
    /\ [][cur' # cur /\ cur' # NoMsg
            => chRes # <<>> /\ cur' = Head(chRes) /\ chRes' = Tail(chRes)]_vars
    /\ [][Len(chRes') > Len(chRes)
            => \E g \in G :
                 /\ workers[g].pc = "sendRes"
                 /\ workers'[g] # workers[g]
                 /\ chRes' = Append(chRes, [src |-> workers[g].src,
                                            Numbers |-> reply[workers[g].src].Numbers])]_vars
    /\ [][visited' # visited /\ cpc = "filter"
            => visited' = visited \cup Range(cur.Numbers)]_vars

\* The aggregator has filed values while a fetch is still running and the
\* dispatcher has not finished.
C31_Witness ==
    /\ accumulator # <<>>
    /\ cpc = "select"
    /\ \E g \in G : workers[g].pc \in {"decode", "sendRes"}
    /\ variant = "pool"

\* ------------------------------------------------------------------- C32

\* The handler entered with the package variable timeout still nil: the way
\* of a caller that invokes numbersHandler itself, without main.
InitDirect ==
    /\ variant = "pool"
    /\ method \in Methods
    /\ urls \in SeqsUpTo(Urls, MaxUrls)
    /\ clock = 0
    /\ latency = 0
    /\ timeoutPtr = "nil"
    /\ InitHandler

\* main, up to http.HandleFunc: timeout = flag.Duration("timeout", 50000, ...)
main ==
    /\ timeoutPtr = "nil"
    /\ hpc = "start"
    /\ timeoutPtr' = "set"
    /\ UNCHANGED <<timeVars, variant, method, urls, hVars, ctxVars, dispVars, workers,
                   chVars, consVars, histVars>>

NextDirect == main \/ Next

\* The "pool" revision with its handler reachable both ways: through main
\* and by a direct call.
SpecDirect == InitDirect /\ [][NextDirect]_vars

\* C32: the total deadline is fixed before any request is handled: every
\* invocation of numbersHandler on a GET request, the direct one that did
\* not pass through main included, finds the deadline configuration set,
\* derives its deadline token from it and does not fail on reading it.
C32_DeadlineConfigured ==
    (method = "GET" /\ hpc # "start")
        => /\ timeoutPtr = "set"
           /\ hpc # "panic"
           /\ ctx # "none"

\* What holds instead: a request served after main has run finds the
\* configuration set and gets its deadline token.
C32_AfterMain ==
    /\ timeoutPtr = "set"
    /\ hpc # "panic"
    /\ (method = "GET" /\ hpc # "start") => ctx # "none"

\* ------------------------------------------------------------------- C33

\* C33: every integer of the output, in the accumulator and in the encoded
\* body, was contained in a SourceResult the aggregator received from the
\* result channel. The sources it received a result from answered with
\* success and a decodable body and were not rejected; once the aggregator
\* is at DONE none of them has its result still in a channel or in flight.
\* So the output holds no value that only a failed, rejected, waiting or
\* in-flight source gave, and none that no source returned.
C33_OutputWasReceived ==
    /\ Range(accumulator) \subseteq ValuesOf(Received)
    /\ (hpc = "done" /\ body.kind = "json") => Range(body.numbers) \subseteq ValuesOf(Received)
    /\ \A s \in Received :
         /\ s \in Sources
         /\ AnsweredOk(s)
         /\ ~Malformed(urls[s])
         /\ ~Unreachable(urls[s])
         /\ InChannel(chRes, s) = 0
         /\ InChannel(chErr, s) = 0
         /\ ~Held(s)
    /\ cpc = "done" =>
         \A s \in Sources :
            (\/ outcome[s] # "res"
             \/ InChannel(chRes, s) > 0
             \/ Held(s)
             \/ Malformed(urls[s]))
                => s \notin Received

\* The aggregator reached DONE by the deadline with one result filed and
\* another still waiting in the result channel, whose value 3 is left out;
\* the handler has encoded that output.
C33_Witness ==
    /\ hpc = "done"
    /\ how = "deadline"
    /\ body.numbers = <<1, 2>>
    /\ \E k \in 1 .. Len(chRes) : chRes[k].Numbers = <<3, 2>>

\* A source answered 503 with the payload 3, 2 and the other one's result
\* 2, 1, 1 was received: the output is 1, 2.
C33_WitnessFailed ==
    /\ cpc = "done"
    /\ accumulator = <<1, 2>>
    /\ \E s \in Sources : AnsweredBadStatus(s) /\ reply[s].Numbers = <<3, 2>>

\* ------------------------------------------------------------------- C34

\* A GET with one source more than the semaphore has places, handled by the
\* "sem" revision.
InitSemLong ==
    /\ variant = "sem"
    /\ method = "GET"
    /\ urls \in {u \in SeqsUpTo(Urls, maxConnections + 1) : Len(u) = maxConnections + 1}
    /\ clock = 0
    /\ latency = 0
    /\ InitProgram

\* One step of the goroutine `go fetch(ctx, sem, u, ch, er)`.
fetch(g) ==
    \/ fetchAcquire(g)
    \/ fetchRequest(g)
    \/ fetchDecode(g)
    \/ fetchSendErr(g)
    \/ fetchSendRes(g)

\* The "sem" revision under the scheduler's guarantee that a goroutine which
\* can take a step eventually takes one. The round trip is bound to ctx,
\* whose timer fires after the total timeout, so it returns in any case.
SpecSemFair == InitSemLong /\ [][NextSem]_vars /\ \A g \in G : WF_vars(fetch(g))

\* The places of the semaphore.
SemPlaces == min(maxConnections, Len(urls))

\* C34: in the "sem" revision a fetch goroutine that has an outcome to send
\* finds room in the channel it sends on, whether the collecting loop still
\* runs or has returned, since each channel has one slot per source and each
\* goroutine sends once; no more goroutines hold the semaphore than it has
\* places; a goroutine ends only from holding it, which frees its place; and
\* every spawned goroutine eventually acquires the semaphore and eventually
\* ends, also when the deadline has fired and the collecting loop has
\* returned.
C34_SemGoroutinesFinish ==
    /\ [](\A g \in G :
            /\ workers[g].pc = "sendErr" => Len(chErr) < Cap
            /\ workers[g].pc = "sendRes" => Len(chRes) < Cap)
    /\ [](SemHeld <= SemPlaces)
    /\ [][\A g \in G :
            /\ workers[g].pc = "acquire" /\ workers'[g].pc # "acquire"
                 => workers'[g].pc = "fetch" /\ SemHeld' = SemHeld + 1
            /\ workers[g].pc # "exit" /\ workers'[g].pc = "exit"
                 => /\ workers[g].pc \in {"sendErr", "sendRes"}
                    /\ SemHeld' = SemHeld - 1]_vars
    /\ \A g \in G : (workers[g].pc = "acquire") ~> (workers[g].pc = "exit")

\* The collecting loop returned by the deadline and the handler has
\* answered while the semaphore is full and a third goroutine waits for a
\* place.
C34_Witness ==
    /\ hpc = "done"
    /\ how = "deadline"
    /\ SemHeld = SemPlaces
    /\ \E g \in G : workers[g].pc = "acquire"

\* Every goroutine has ended after the handler answered by the deadline, and
\* their outcomes lie in the channels, never received.
C34_WitnessAllEnded ==
    /\ hpc = "done"
    /\ how = "deadline"
    /\ \A g \in G : workers[g].pc = "exit"
    /\ Len(chRes) + Len(chErr) = maxConnections + 1

\* ------------------------------------------------------------------- C35

\* The collecting loop returns in this step.
Returns == cpc # "done" /\ cpc' = "done"

\* C35 as stated: in the "orig" revision validateAndFetch returns before the
\* deadline fires if and only if every supplied url produced a successful
\* result, and otherwise returns at the deadline.
C35_Original ==
    [][Returns => (how' = "settled" <=> \A s \in Sources : outcome[s] = "res")]_vars

\* C35 amended: in the "orig" revision the collecting loop waits for one
\* message per supplied url, while a rejected url and a failed fetch send
\* none and there is no failure channel. So validateAndFetch returns by
\* all-settled only if every supplied url produced a successful result and
\* the loop received each of them; in every other case, a rejected or failed
\* source or a context that became done before the last result was
\* received, it returns on the done context with the sorted distinct values
\* received so far; while the context is live, the channel is empty and
\* messages are outstanding, the loop waits.
C35_SettledOnlyIfAllSucceeded ==
    /\ [](Collecting => count = Len(urls))
    /\ [](chErr = <<>>)
    /\ [](\A s \in Sources :
            /\ outcome[s] \in {"none", "res"}
            /\ Msgs(s) <= 1
            /\ (Malformed(urls[s]) \/ Unreachable(urls[s]) \/ AnsweredBadStatus(s)
                  \/ (reply[s] # NoResp /\ ~reply[s].ok))
                 => Msgs(s) = 0 /\ outcome[s] = "none")
    /\ [][Returns =>
            /\ how' = "settled" => \A s \in Sources : outcome[s] = "res" /\ s \in Received
            /\ how' = "deadline" => Done /\ i < Len(urls)
            /\ (\E s \in Sources : outcome[s] # "res") => how' = "deadline"
            /\ accumulator' = SetToSortedSeq(ValuesOf(Received))]_vars
    /\ [](cpc = "select" /\ i < count /\ chRes = <<>> /\ ~Done => ~ENABLED consume)
    /\ [](cpc = "select" /\ i = count => ENABLED consumeEnd /\ ~ENABLED consumeDone)

\* One url was rejected and the other's result received: the loop returned
\* on the done context with the values of the one.
C35_Witness ==
    /\ variant = "orig"
    /\ urls = <<"%bad", "a">>
    /\ cpc = "done"
    /\ how = "deadline"
    /\ accumulator = <<1, 2>>

\* Every url produced a successful result and the loop returned by
\* all-settled with the context live.
C35_WitnessSettled ==
    /\ variant = "orig"
    /\ Len(urls) = 2
    /\ cpc = "done"
    /\ how = "settled"
    /\ ctx = "live"
    /\ accumulator = <<1, 2, 3>>

\* Every url produced a successful result before the context was done, and
\* the loop returned on the done context nevertheless.
C35_WitnessRace ==
    /\ variant = "orig"
    /\ Len(urls) = 2
    /\ cpc = "done"
    /\ how = "deadline"
    /\ early = Sources
    /\ chRes # <<>>

====
